---- MODULE Spec2Model ----
(***************************************************************************)
(* Model of src/mcp_server.py: the four FileReader tools                   *)
(*   read_file_tool, list_files_in_directory_tool,                         *)
(*   read_multiple_files_tool, search_file_content_tool                    *)
(* over a small POSIX file tree.  Library calls are modelled as CPython    *)
(* 3.11 performs them (pathlib, posixpath.realpath, fnmatch, open).        *)
(*                                                                         *)
(* Strings are TLA+ strings; a character is a string of length one.        *)
(* Two characters stand for bytes TLA+ cannot write:                       *)
(*   NUL ("\t") stands for chr(0), BAD ("#") for the byte 0xFF, which is   *)
(*   never valid in UTF-8.                                                 *)
(* The tools are `async def` without any await, so the event loop runs     *)
(* each call to completion: one call is one atomic action.                 *)
(***************************************************************************)
EXTENDS Integers, Sequences, FiniteSets, TLC

VARIABLES fs, twin, call, res, res2, prev

vars == <<fs, twin, call, res, res2, prev>>

(***************************************************************************)
(* Bounds                                                                  *)
(***************************************************************************)
\* symbolic links followed in one path walk before the walk gives up
MaxLinks == 4
\* directory levels the recursive wildcard descends below its start
MaxDepth == 3

(***************************************************************************)
(* Strings                                                                 *)
(***************************************************************************)
NUL == "\t"
BAD == "#"
NL == "\n"

Ch(s, i) == SubSeq(s, i, i)

Contains(s, c) == \E i \in 1..Len(s) : Ch(s, i) = c

\* code points of the characters the model uses (Python compares str by code point)
Ord(c) ==
  CASE c = "\t" -> 0   [] c = "\n" -> 10  [] c = " " -> 32  [] c = "!" -> 33
    [] c = "#" -> 35   [] c = "*" -> 42   [] c = "." -> 46  [] c = "/" -> 47
    [] c = "?" -> 63   [] c = "A" -> 65   [] c = "B" -> 66  [] c = "a" -> 97
    [] c = "b" -> 98   [] c = "c" -> 99   [] c = "d" -> 100 [] c = "e" -> 101
    [] c = "f" -> 102  [] c = "g" -> 103  [] c = "k" -> 107 [] c = "m" -> 109
    [] c = "n" -> 110  [] c = "o" -> 111  [] c = "p" -> 112 [] c = "q" -> 113
    [] c = "s" -> 115  [] c = "t" -> 116  [] c = "u" -> 117 [] c = "w" -> 119
    [] c = "x" -> 120  [] c = "y" -> 121  [] c = "z" -> 122

\* str.__lt__
RECURSIVE StrLess(_, _)
StrLess(a, b) ==
  IF Len(b) = 0 THEN FALSE
  ELSE IF Len(a) = 0 THEN TRUE
  ELSE IF Ch(a, 1) = Ch(b, 1) THEN StrLess(SubSeq(a, 2, Len(a)), SubSeq(b, 2, Len(b)))
  ELSE Ord(Ch(a, 1)) < Ord(Ch(b, 1))

\* str.lower on one character
LowerCh(c) == IF c = "A" THEN "a" ELSE IF c = "B" THEN "b" ELSE c

\* str.lower
RECURSIVE Lower(_)
Lower(s) == IF Len(s) = 0 THEN "" ELSE LowerCh(Ch(s, 1)) \o Lower(SubSeq(s, 2, Len(s)))

\* a in b  (substring test of str.__contains__)
IsSubstring(a, b) ==
  \E i \in 1..(Len(b) + 1) : i + Len(a) - 1 <= Len(b) /\ SubSeq(b, i, i + Len(a) - 1) = a

\* str.split(sep) for a one-character separator: the pieces between separators
RECURSIVE SplitOn(_, _, _, _)
SplitOn(s, sep, i, cur) ==
  IF i > Len(s) THEN <<cur>>
  ELSE IF Ch(s, i) = sep THEN <<cur>> \o SplitOn(s, sep, i + 1, "")
  ELSE SplitOn(s, sep, i + 1, cur \o Ch(s, i))

\* io readlines(): the lines of a text, each with its terminator
RECURSIVE ReadLines(_, _, _)
ReadLines(s, i, cur) ==
  IF i > Len(s) THEN (IF Len(cur) = 0 THEN <<>> ELSE <<cur>>)
  ELSE IF Ch(s, i) = NL THEN <<cur \o NL>> \o ReadLines(s, i + 1, "")
  ELSE ReadLines(s, i + 1, cur \o Ch(s, i))

\* str.rstrip(): trailing whitespace removed
RECURSIVE RStrip(_)
RStrip(s) ==
  IF Len(s) = 0 THEN ""
  ELSE IF Ch(s, Len(s)) \in {NL, " "} THEN RStrip(SubSeq(s, 1, Len(s) - 1))
  ELSE s

\* b starts with a
IsPrefixStr(a, b) == Len(a) <= Len(b) /\ SubSeq(b, 1, Len(a)) = a

(***************************************************************************)
(* Paths: a PurePosixPath is its root flag and its parts                   *)
(***************************************************************************)
\* pathlib _PosixFlavour.parse_parts: split on "/", drop "" and "."
ParseParts(s) ==
  LET segs == SplitOn(s, "/", 1, "")
  IN  [abs   |-> Len(s) > 0 /\ Ch(s, 1) = "/",
       parts |-> SelectSeq(segs, LAMBDA x : Len(x) > 0 /\ x # ".")]

Parent(p) == IF p = <<>> THEN <<>> ELSE SubSeq(p, 1, Len(p) - 1)

\* PurePath.name
Name(p) == IF p = <<>> THEN "" ELSE p[Len(p)]

\* PurePath.is_relative_to / relative_to succeeds
IsRelativeTo(p, base) == Len(base) <= Len(p) /\ SubSeq(p, 1, Len(base)) = base

\* PurePath.__lt__: the parts compared as tuples of str
RECURSIVE PathLess(_, _)
PathLess(p, q) ==
  IF q = <<>> THEN FALSE
  ELSE IF p = <<>> THEN TRUE
  ELSE IF Head(p) = Head(q) THEN PathLess(Tail(p), Tail(q))
  ELSE StrLess(Head(p), Head(q))

\* str(path)
RECURSIVE PathStr(_)
PathStr(p) ==
  IF p = <<>> THEN "/"
  ELSE IF Len(p) = 1 THEN "/" \o p[1]
  ELSE PathStr(Parent(p)) \o "/" \o p[Len(p)]

\* ALLOWED_DIRECTORY, already resolved at import
ALLOWED_DIRECTORY == <<"s", "d">>

\* the working directory of the server process
Cwd == <<"s">>

(***************************************************************************)
(* The file tree.  A node is a directory, a regular file or a symbolic     *)
(* link, keyed by its link-free absolute path.  mode is the access the     *)
(* server's user has: "rx" / "r" / "-" on a directory (list and search,    *)
(* list only, none), "r" / "-" on a file.                                  *)
(***************************************************************************)
Dir(m) == [type |-> "dir", mode |-> m, data |-> ""]
File(m, d) == [type |-> "file", mode |-> m, data |-> d]
Link(t) == [type |-> "link", mode |-> "rx", data |-> t]

\* the part of the tree every file system of the model has
Skeleton ==
  (<<>> :> Dir("rx")) @@ (<<"s">> :> Dir("rx")) @@ (<<"s", "d">> :> Dir("rx")) @@
  (<<"s", "w">> :> Link("d")) @@
  (<<"s", "d", "a.t">> :> File("r", "Ab\nc AB\ng\n")) @@
  (<<"s", "d", "b.m">> :> File("r", "#\n")) @@
  (<<"s", "d", "e">> :> Dir("rx")) @@
  (<<"s", "d", "u">> :> Dir("rx")) @@
  (<<"s", "d", "u", "z.t">> :> File("r", "ab\n")) @@
  (<<"s", "d", "x">> :> Link("../o.t")) @@
  (<<"s", "d", "y">> :> Link("..")) @@
  (<<"s", "d", "p", "q.t">> :> File("r", "q\n")) @@
  (<<"s", "d", "n", "f.t">> :> File("r", "ab"))

\* inside ALLOWED_DIRECTORY: every node accessible, or some locked
Inside(locked) ==
  IF locked
  THEN (<<"s", "d", "k.t">> :> File("-", "x\n")) @@
       (<<"s", "d", "p">> :> Dir("r")) @@ (<<"s", "d", "n">> :> Dir("-"))
  ELSE (<<"s", "d", "k.t">> :> File("r", "x\n")) @@
       (<<"s", "d", "p">> :> Dir("rx")) @@ (<<"s", "d", "n">> :> Dir("rx"))

\* outside ALLOWED_DIRECTORY: /s/o.t is a file, is missing, or is a directory
Outside(o) ==
  IF o = "file" THEN (<<"s", "o.t">> :> File("r", "ab!\n"))
  ELSE IF o = "dir" THEN (<<"s", "o.t">> :> Dir("rx")) @@ (<<"s", "o.t", "a.t">> :> File("r", "b\n"))
  ELSE (<<"s", "g">> :> File("r", ""))

MkFS(locked, o) == Inside(locked) @@ Outside(o) @@ Skeleton

FileSystems == {MkFS(l, o) : l \in BOOLEAN, o \in {"file", "none", "dir"}}

\* the two trees have the same nodes at and below ALLOWED_DIRECTORY
SameInside(F, G) ==
  LET in(H) == {p \in DOMAIN H : IsRelativeTo(p, ALLOWED_DIRECTORY)}
  IN  in(F) = in(G) /\ \A p \in in(F) : F[p] = G[p]

(***************************************************************************)
(* System calls                                                            *)
(***************************************************************************)
\* a call returns a value or raises an exception of type exc with text why
Ok(v) == [exc |-> "", why |-> "", val |-> v]
Raise(e, w) == [exc |-> e, why |-> w, val |-> <<>>]

\* path resolution of the kernel: every directory on the way must be
\* searchable, ".." is the parent, a link is replaced by its target
RECURSIVE Walk(_, _, _, _, _)
Walk(F, cur, rest, follow, fuel) ==
  IF rest = <<>> THEN [err |-> "OK", real |-> cur]
  ELSE LET c == Head(rest)
           tl == Tail(rest)
           child == Append(cur, c)
           to(t) == Walk(F, IF t.abs THEN <<>> ELSE cur, t.parts \o tl, follow, fuel - 1)
       IN  IF F[cur].type # "dir" THEN [err |-> "ENOTDIR", real |-> cur]
           ELSE IF F[cur].mode # "rx" THEN [err |-> "EACCES", real |-> cur]
           ELSE IF c = ".." THEN Walk(F, Parent(cur), tl, follow, fuel)
           ELSE IF child \notin DOMAIN F THEN [err |-> "ENOENT", real |-> cur]
           ELSE IF F[child].type = "link" /\ (tl # <<>> \/ follow)
                THEN IF fuel = 0 THEN [err |-> "ELOOP", real |-> cur]
                     ELSE to(ParseParts(F[child].data))
           ELSE Walk(F, child, tl, follow, fuel)

\* os.stat / os.lstat
Stat(F, p) == Walk(F, <<>>, p, TRUE, MaxLinks)
LStat(F, p) == Walk(F, <<>>, p, FALSE, MaxLinks)

\* pathlib _ignore_error: ENOENT, ENOTDIR, EBADF, ELOOP
IgnoreError(err) == err \in {"ENOENT", "ENOTDIR", "ELOOP"}

\* Path.exists
Exists(F, p) ==
  LET of(st) == IF st.err = "OK" THEN Ok(TRUE)
                ELSE IF IgnoreError(st.err) THEN Ok(FALSE)
                ELSE Raise("PermissionError", "[Errno 13] Permission denied")
  IN  of(Stat(F, p))

\* Path.is_file
IsFile(F, p) ==
  LET of(st) == IF st.err = "OK" THEN Ok(F[st.real].type = "file")
                ELSE IF IgnoreError(st.err) THEN Ok(FALSE)
                ELSE Raise("PermissionError", "[Errno 13] Permission denied")
  IN  of(Stat(F, p))

\* Path.is_dir
IsDir(F, p) ==
  LET of(st) == IF st.err = "OK" THEN Ok(F[st.real].type = "dir")
                ELSE IF IgnoreError(st.err) THEN Ok(FALSE)
                ELSE Raise("PermissionError", "[Errno 13] Permission denied")
  IN  of(Stat(F, p))

\* Path.stat().st_size
StatSize(F, p) ==
  LET of(st) == IF st.err = "OK" THEN Ok(Len(F[st.real].data))
                ELSE IF st.err = "EACCES"
                THEN Raise("PermissionError", "[Errno 13] Permission denied")
                ELSE Raise("FileNotFoundError", "[Errno 2] No such file or directory")
  IN  of(Stat(F, p))

\* bytes.decode('utf-8') on the bytes the model uses: only 0xFF is invalid
Decode(data) == IF Contains(data, BAD) THEN Raise("UnicodeDecodeError", "invalid start byte") ELSE Ok(data)

\* open(p, 'r', encoding='utf-8') followed by read()
OpenRead(F, p) ==
  LET of(st) ==
        IF st.err = "EACCES" THEN Raise("PermissionError", "[Errno 13] Permission denied")
        ELSE IF st.err # "OK" THEN Raise("FileNotFoundError", "[Errno 2] No such file or directory")
        ELSE IF F[st.real].type = "dir" THEN Raise("IsADirectoryError", "[Errno 21] Is a directory")
        ELSE IF F[st.real].mode # "r" THEN Raise("PermissionError", "[Errno 13] Permission denied")
        ELSE Decode(F[st.real].data)
  IN  of(Stat(F, p))

\* os.scandir: the names in a directory
ScanDir(F, p) ==
  LET of(st) ==
        IF st.err = "EACCES" THEN Raise("PermissionError", "[Errno 13] Permission denied")
        ELSE IF st.err # "OK" THEN Raise("FileNotFoundError", "[Errno 2] No such file or directory")
        ELSE IF F[st.real].type # "dir" THEN Raise("NotADirectoryError", "[Errno 20] Not a directory")
        ELSE IF F[st.real].mode = "-" THEN Raise("PermissionError", "[Errno 13] Permission denied")
        ELSE Ok({q[Len(q)] : q \in {r \in DOMAIN F : r # <<>> /\ Parent(r) = st.real}})
  IN  of(Stat(F, p))

(***************************************************************************)
(* Path.resolve(): posixpath.realpath, strict=False                        *)
(***************************************************************************)
\* posixpath._joinrealpath: ".." pops, a name that lstat shows to be a link
\* is replaced by its target, any other name (missing ones too) is kept
RECURSIVE JoinRealpath(_, _, _, _)
JoinRealpath(F, path, rest, fuel) ==
  IF rest = <<>> THEN Ok(path)
  ELSE LET name == Head(rest)
           tl == Tail(rest)
           newpath == Append(path, name)
           islink(st) == st.err = "OK" /\ F[st.real].type = "link"
           to(t) == JoinRealpath(F, IF t.abs THEN <<>> ELSE path, t.parts \o tl, fuel - 1)
       IN  IF name = ".." THEN JoinRealpath(F, Parent(path), tl, fuel)
           ELSE IF ~islink(LStat(F, newpath)) THEN JoinRealpath(F, newpath, tl, fuel)
           ELSE IF fuel = 0 THEN Raise("RuntimeError", "Symlink loop")
           ELSE to(ParseParts(F[newpath].data))

\* Path.resolve() of an absolute path; os.lstat rejects a NUL character
Resolve(F, p) ==
  IF \E i \in 1..Len(p) : Contains(p[i], NUL) THEN Raise("ValueError", "embedded null byte")
  ELSE JoinRealpath(F, <<>>, p, MaxLinks)

\* Path(s), made absolute as resolve() does for a relative path
AbsPath(s) ==
  LET of(pp) == IF pp.abs THEN pp.parts ELSE Cwd \o pp.parts IN of(ParseParts(s))

\* ALLOWED_DIRECTORY / s
JoinAllowed(s) ==
  LET of(pp) == IF pp.abs THEN pp.parts ELSE ALLOWED_DIRECTORY \o pp.parts
  IN  of(ParseParts(s))

(***************************************************************************)
(* Path.glob / Path.rglob (pathlib selectors)                              *)
(***************************************************************************)
\* fnmatch on one name: "*" is any run of characters, "?" any one character
RECURSIVE FnMatch(_, _)
FnMatch(pat, name) ==
  IF Len(pat) = 0 THEN Len(name) = 0
  ELSE LET c == Ch(pat, 1)
           pt == SubSeq(pat, 2, Len(pat))
           nt == SubSeq(name, 2, Len(name))
       IN  IF c = "*" THEN FnMatch(pt, name) \/ (Len(name) > 0 /\ FnMatch(pat, nt))
           ELSE IF c = "?" THEN Len(name) > 0 /\ FnMatch(pt, nt)
           ELSE Len(name) > 0 /\ Ch(name, 1) = c /\ FnMatch(pt, nt)

\* pathlib _is_wildcard_pattern
IsWildcard(pat) == Contains(pat, "*") \/ Contains(pat, "?") \/ Contains(pat, "[")

\* _RecursiveWildcardSelector._iterate_directories: the start and every
\* directory below it that is not reached through a link; a directory that
\* cannot be scanned contributes itself only
RECURSIVE IterDirs(_, _, _)
IterDirs(F, path, depth) ==
  LET subs(sd, st) == IF sd.exc # "" \/ depth = 0 THEN {}
                      ELSE {nm \in sd.val : F[Append(st.real, nm)].type = "dir"}
  IN  {path} \cup UNION {IterDirs(F, Append(path, nm), depth - 1) :
                           nm \in subs(ScanDir(F, path), Stat(F, path))}

\* DirEntry.is_dir() of entry nm of the directory path (links followed)
EntryIsDir(F, path, nm) ==
  LET of(st) == st.err = "OK" /\ F[st.real].type = "dir" IN of(Stat(F, Append(path, nm)))

\* _Selector._select_from for the pattern parts pp below path: the paths the
\* chain of selectors yields.  PermissionError inside a selector ends that
\* selector's scan silently.
RECURSIVE Select(_, _, _)
Select(F, pp, path) ==
  IF pp = <<>> THEN {path}
  ELSE LET pat == Head(pp)
           rest == Tail(pp)
           dironly == rest # <<>>
           scan(sd) ==
             IF sd.exc # "" THEN {}
             ELSE UNION {Select(F, rest, Append(path, nm)) :
                           nm \in {n \in sd.val : FnMatch(pat, n)
                                     /\ (dironly => EntryIsDir(F, path, n))}}
           step(child, t) == IF t.exc # "" \/ ~t.val THEN {} ELSE Select(F, rest, child)
       IN  IF pat = "**"
           THEN UNION {Select(F, rest, sp) : sp \in IterDirs(F, path, MaxDepth)}
           ELSE IF IsWildcard(pat) THEN scan(ScanDir(F, path))
           ELSE step(Append(path, pat),
                     IF dironly THEN IsDir(F, Append(path, pat))
                     ELSE Exists(F, Append(path, pat)))

\* _make_selector: the checks made while the selectors are built
MakeSelector(pp) ==
  IF pp = <<>> THEN Raise("IndexError", "tuple index out of range")
  ELSE IF \E i \in 1..Len(pp) : pp[i] # "**" /\ IsSubstring("**", pp[i])
       THEN Raise("ValueError", "Invalid pattern: '**' can only be an entire path component")
  ELSE Ok(pp)

\* Path.glob(pattern) on the directory path: the set of paths it yields
Glob(F, path, pattern) ==
  LET from(abs, sel) ==
        IF Len(pattern) = 0 THEN Raise("ValueError", "Unacceptable pattern: ''")
        ELSE IF abs THEN Raise("NotImplementedError", "Non-relative patterns are unsupported")
        ELSE IF sel.exc # "" THEN sel
        ELSE IF ~IsDir(F, path).val THEN Ok({})
        ELSE Ok(Select(F, sel.val, path))
      of(pp) == from(pp.abs, MakeSelector(pp.parts))
  IN  of(ParseParts(pattern))

\* Path.rglob(pattern): glob with a leading "**" part
RGlob(F, path, pattern) ==
  LET from(abs, sel) ==
        IF abs THEN Raise("NotImplementedError", "Non-relative patterns are unsupported")
        ELSE IF sel.exc # "" THEN sel
        ELSE IF ~IsDir(F, path).val THEN Ok({})
        ELSE Ok(Select(F, sel.val, path))
      of(pp) == from(pp.abs, MakeSelector(<<"**">> \o pp.parts))
  IN  of(ParseParts(pattern))

\* [f for f in <glob> if f.is_file()]: is_file raising ends the comprehension
OnlyFiles(F, g) ==
  LET is_file == [f \in g.val |-> IsFile(F, f)]
      of(t) == IF \E f \in g.val : t[f].exc # ""
               THEN t[CHOOSE f \in g.val : t[f].exc # ""]
               ELSE Ok({f \in g.val : t[f].val})
  IN  IF g.exc # "" THEN g ELSE of(is_file)

(***************************************************************************)
(* Order of the matches                                                    *)
(***************************************************************************)
\* the paths of S in ascending order
RECURSIVE Ascending(_)
Ascending(S) ==
  IF S = {} THEN <<>>
  ELSE LET m == CHOOSE x \in S : \A y \in S \ {x} : PathLess(x, y)
       IN  <<m>> \o Ascending(S \ {m})

Reverse(q) == [i \in 1..Len(q) |-> q[Len(q) + 1 - i]]

\* the list the comprehension builds: the directory scans deliver the
\* entries in an order the file system chooses (here one order or its reverse)
ScanOrder(S, rev) == IF rev THEN Reverse(Ascending(S)) ELSE Ascending(S)

\* the list used as the scans delivered it, sorted() left out
Unsorted(q) == q

\* sorted(files): insertion of each path before the first greater one
RECURSIVE Insert(_, _)
Insert(q, x) ==
  IF q = <<>> THEN <<x>>
  ELSE IF PathLess(x, Head(q)) THEN <<x>> \o q
  ELSE <<Head(q)>> \o Insert(Tail(q), x)

RECURSIVE Sorted(_)
Sorted(q) == IF q = <<>> THEN <<>> ELSE Insert(Sorted(SubSeq(q, 1, Len(q) - 1)), q[Len(q)])

(***************************************************************************)
(* Result strings.  A result is kept as the pieces the f-string joins:     *)
(* prefix is the literal text up to the first interpolated value, args the *)
(* interpolated values, items the per-file entries (each with the path the *)
(* tool took it from) and total the count it prints.  kind names the       *)
(* outcome class of the return statement that built it.                    *)
(***************************************************************************)
Msg(k, pre, a, it, n) == [kind |-> k, prefix |-> pre, args |-> a, items |-> it, total |-> n]

Returned(m) == [status |-> "returned", msg |-> m]
Escaped(e) == [status |-> "raised", msg |-> Msg("Raised", "", <<e.exc, e.why>>, <<>>, 0)]

\* the exceptions of the model that `except Exception` catches (all of them
\* derive from Exception)
IsException(e) ==
  e \in {"PermissionError", "UnicodeDecodeError", "ValueError", "NotImplementedError",
         "IndexError", "FileNotFoundError", "IsADirectoryError", "NotADirectoryError",
         "RuntimeError"}

\* the failure class behind an exception that a catch-all handler reports
ClassOf(e) ==
  IF e.exc = "PermissionError" THEN "Permission"
  ELSE IF e.exc = "UnicodeDecodeError" THEN "Decode"
  ELSE IF e.why = "embedded null byte" THEN "InvalidPath"
  ELSE IF e.exc \in {"ValueError", "NotImplementedError", "IndexError"} THEN "Pattern"
  ELSE "Other"

DeniedMsg ==
  Msg("Denied", "Error: Access denied.  Only files within '", <<PathStr(ALLOWED_DIRECTORY)>>, <<>>, 0)

\* is_path_allowed with the containment test made against the parent of
\* ALLOWED_DIRECTORY (the directory line 108 uses)
is_path_allowed_parent(F, file_path) ==
  LET of(r) ==
        IF r.exc # ""
        THEN [msg |-> Msg("InvalidPath", "Error: Invalid path - ", <<r.why>>, <<>>, 0), allowed |-> FALSE]
        ELSE IF ~IsRelativeTo(r.val, Parent(ALLOWED_DIRECTORY))
        THEN [msg |-> DeniedMsg, allowed |-> FALSE]
        ELSE [msg |-> Msg("", "", <<>>, <<>>, 0), allowed |-> TRUE]
  IN  of(Resolve(F, AbsPath(file_path)))

\* is_path_allowed(file_path): resolve, then the containment test
is_path_allowed(F, file_path) ==
  LET of(r) ==
        IF r.exc # ""
        THEN [msg |-> Msg("InvalidPath", "Error: Invalid path - ", <<r.why>>, <<>>, 0), allowed |-> FALSE]
        ELSE IF ~IsRelativeTo(r.val, ALLOWED_DIRECTORY)
        THEN [msg |-> DeniedMsg, allowed |-> FALSE]
        ELSE [msg |-> Msg("", "", <<>>, <<>>, 0), allowed |-> TRUE]
  IN  of(Resolve(F, AbsPath(file_path)))

(***************************************************************************)
(* read_file_tool                                                          *)
(***************************************************************************)
\* the try block with the existence and file tests made before the
\* containment test
ReadFileBodyExistsFirst(F, file_path) ==
  LET steps(path, chk, ex, isf, rd) ==
        IF ex.exc # "" THEN ex
        ELSE IF ~ex.val
        THEN Ok(Msg("NotFound", "Error: File '", <<Name(path)>>, <<>>, 0))
        ELSE IF isf.exc # "" THEN isf
        ELSE IF ~isf.val
        THEN Ok(Msg("NotFound", "Error: '", <<Name(path)>>, <<>>, 0))
        ELSE IF ~chk.allowed THEN Ok(chk.msg)
        ELSE IF rd.exc # "" THEN rd
        ELSE Ok(Msg("Success", "File: ", <<Name(path), PathStr(path), rd.val>>,
                    <<[path |-> path, name |-> Name(path)]>>, 1))
      at(path) == steps(path, is_path_allowed(F, PathStr(path)), Exists(F, path),
                        IsFile(F, path), OpenRead(F, path))
      of(r) == IF r.exc # "" THEN r ELSE at(r.val)
  IN  of(Resolve(F, JoinAllowed(file_path)))

\* the try block: a result, or the exception that leaves it
ReadFileBody(F, file_path) ==
  LET steps(path, chk, ex, isf, rd) ==
        IF ~chk.allowed THEN Ok(chk.msg)
        ELSE IF ex.exc # "" THEN ex
        ELSE IF ~ex.val
        THEN Ok(Msg("NotFound", "Error: File '", <<Name(path)>>, <<>>, 0))
        ELSE IF isf.exc # "" THEN isf
        ELSE IF ~isf.val
        THEN Ok(Msg("NotFound", "Error: '", <<Name(path)>>, <<>>, 0))
        ELSE IF rd.exc # "" THEN rd
        ELSE Ok(Msg("Success", "File: ", <<Name(path), PathStr(path), rd.val>>,
                    <<[path |-> path, name |-> Name(path)]>>, 1))
      at(path) == steps(path, is_path_allowed(F, PathStr(path)), Exists(F, path),
                        IsFile(F, path), OpenRead(F, path))
      of(r) == IF r.exc # "" THEN r ELSE at(r.val)
  IN  of(Resolve(F, JoinAllowed(file_path)))

\* the except clauses without the last one, `except Exception`
ReadFileHandlerNarrow(file_path, e) ==
  IF e.exc = "PermissionError"
  THEN Returned(Msg("Permission", "Error: Permission denied reading '", <<file_path>>, <<>>, 0))
  ELSE IF e.exc = "UnicodeDecodeError"
  THEN Returned(Msg("Decode", "Error: Unable to decode '", <<file_path>>, <<>>, 0))
  ELSE Escaped(e)

\* the except clauses
ReadFileHandler(file_path, e) ==
  IF e.exc = "PermissionError"
  THEN Returned(Msg("Permission", "Error: Permission denied reading '", <<file_path>>, <<>>, 0))
  ELSE IF e.exc = "UnicodeDecodeError"
  THEN Returned(Msg("Decode", "Error: Unable to decode '", <<file_path>>, <<>>, 0))
  ELSE IF IsException(e.exc)
  THEN Returned(Msg(ClassOf(e), "Error reading file: ", <<e.why>>, <<>>, 0))
  ELSE Escaped(e)

read_file_tool(F, file_path) ==
  LET of(b) == IF b.exc = "" THEN Returned(b.val) ELSE ReadFileHandler(file_path, b)
  IN  of(ReadFileBody(F, file_path))

(***************************************************************************)
(* list_files_in_directory_tool and read_multiple_files_tool               *)
(***************************************************************************)
\* str(target_dir.relative_to(ALLOWED_DIRECTORY.parent))
RECURSIVE JoinParts(_)
JoinParts(q) ==
  IF q = <<>> THEN "." ELSE IF Len(q) = 1 THEN q[1]
  ELSE JoinParts(SubSeq(q, 1, Len(q) - 1)) \o "/" \o q[Len(q)]

RelativeToParent(p) == JoinParts(SubSeq(p, Len(ALLOWED_DIRECTORY), Len(p)))

\* the target directory with the exists() and is_dir() tests left out
TargetDirUnchecked(F, subdirectory) ==
  LET steps(target_dir, chk) ==
        IF ~chk.allowed THEN Ok([msg |-> chk.msg, dir |-> target_dir, done |-> TRUE])
        ELSE Ok([msg |-> Msg("", "", <<>>, <<>>, 0), dir |-> target_dir, done |-> FALSE])
      at(target_dir) == steps(target_dir, is_path_allowed(F, PathStr(target_dir)))
      of(r) == IF r.exc # "" THEN r ELSE at(r.val)
  IN  of(IF Len(subdirectory) > 0 THEN Resolve(F, JoinAllowed(subdirectory))
         ELSE Ok(ALLOWED_DIRECTORY))

\* lines 87-100 and 130-143: the target directory and the checks on it.
\* val.dir is the directory when val.msg is the empty result.
TargetDir(F, subdirectory) ==
  LET stop(target_dir, m) == Ok([msg |-> m, dir |-> target_dir, done |-> TRUE])
      steps(target_dir, chk, ex, isd) ==
        IF ~chk.allowed THEN stop(target_dir, chk.msg)
        ELSE IF ex.exc # "" THEN ex
        ELSE IF ~ex.val
        THEN stop(target_dir, Msg("NotFound", "Error: Subdirectory '", <<subdirectory>>, <<>>, 0))
        ELSE IF isd.exc # "" THEN isd
        ELSE IF ~isd.val
        THEN stop(target_dir, Msg("NotFound", "Error: '", <<subdirectory>>, <<>>, 0))
        ELSE Ok([msg |-> Msg("", "", <<>>, <<>>, 0), dir |-> target_dir, done |-> FALSE])
      at(target_dir) == steps(target_dir, is_path_allowed(F, PathStr(target_dir)),
                              Exists(F, target_dir), IsDir(F, target_dir))
      of(r) == IF r.exc # "" THEN r ELSE at(r.val)
  IN  of(IF Len(subdirectory) > 0 THEN Resolve(F, JoinAllowed(subdirectory))
         ELSE Ok(ALLOWED_DIRECTORY))

EmptyMsg(pattern) ==
  Msg("Empty", "No files found matching pattern '", <<pattern>>, <<>>, 0)

\* "  - {f.name} ({f.stat().st_size} bytes)" for each f of the sorted list
ListEntries(F, q) ==
  [i \in 1..Len(q) |-> [path |-> q[i], name |-> Name(q[i]), size |-> StatSize(F, q[i]).val]]

ListFilesBody(F, subdirectory, pattern, rev) ==
  LET format(target_dir, files, sizes) ==
        IF files = <<>> THEN Ok(EmptyMsg(pattern))
        ELSE IF \E i \in 1..Len(files) : sizes[i].exc # ""
        THEN sizes[CHOOSE i \in 1..Len(files) : sizes[i].exc # ""]
        ELSE Ok(Msg("Success", "Files in '", <<RelativeToParent(target_dir), pattern>>,
                    ListEntries(F, Sorted(files)), Len(files)))
      sized(target_dir, files) ==
        format(target_dir, files, [i \in 1..Len(files) |-> StatSize(F, files[i])])
      listed(target_dir, g) ==
        IF g.exc # "" THEN g ELSE sized(target_dir, ScanOrder(g.val, rev))
      of(t) == IF t.exc # "" THEN t
               ELSE IF t.val.done THEN Ok(t.val.msg)
               ELSE listed(t.val.dir, OnlyFiles(F, Glob(F, t.val.dir, pattern)))
  IN  of(TargetDir(F, subdirectory))

ListFilesHandler(e) ==
  IF e.exc = "PermissionError"
  THEN Returned(Msg("Permission", "Error: Permission denied accessing the directory.", <<>>, <<>>, 0))
  ELSE IF IsException(e.exc)
  THEN Returned(Msg(ClassOf(e), "Error listing files: ", <<e.why>>, <<>>, 0))
  ELSE Escaped(e)

list_files_in_directory_tool(F, subdirectory, pattern, rev) ==
  LET of(b) == IF b.exc = "" THEN Returned(b.val) ELSE ListFilesHandler(b)
  IN  of(ListFilesBody(F, subdirectory, pattern, rev))

\* the loop body without its try: a file that cannot be read ends the loop
ReadEntryNoCatch(F, file) ==
  LET of(rd) ==
        IF rd.exc = ""
        THEN [path |-> file, name |-> Name(file), how |-> "content", body |-> rd.val]
        ELSE [path |-> file, name |-> Name(file), how |-> "raised", body |-> rd.exc]
  IN  of(OpenRead(F, file))

\* lines 153-160: one banner entry per file, whatever reading it does
ReadEntry(F, file) ==
  LET of(rd) ==
        IF rd.exc = ""
        THEN [path |-> file, name |-> Name(file), how |-> "content", body |-> rd.val]
        ELSE IF rd.exc = "UnicodeDecodeError"
        THEN [path |-> file, name |-> Name(file), how |-> "binary",
              body |-> "[Binary file - cannot display as text]"]
        ELSE IF IsException(rd.exc)
        THEN [path |-> file, name |-> Name(file), how |-> "error", body |-> "Error: " \o rd.why]
        ELSE [path |-> file, name |-> Name(file), how |-> "raised", body |-> rd.exc]
  IN  of(OpenRead(F, file))

ReadEntries(F, q) == [i \in 1..Len(q) |-> ReadEntry(F, q[i])]

ReadMultipleBody(F, subdirectory, pattern, rev) ==
  LET format(target_dir, files, entries) ==
        IF files = <<>> THEN Ok(EmptyMsg(pattern))
        ELSE IF \E i \in 1..Len(entries) : entries[i].how = "raised"
        THEN Raise(entries[CHOOSE j \in 1..Len(entries) : entries[j].how = "raised"].body, "")
        ELSE Ok(Msg("Success", "Reading ", <<RelativeToParent(target_dir)>>, entries, Len(files)))
      loop(target_dir, files) == format(target_dir, files, ReadEntries(F, Sorted(files)))
      listed(target_dir, g) ==
        IF g.exc # "" THEN g ELSE loop(target_dir, ScanOrder(g.val, rev))
      of(t) == IF t.exc # "" THEN t
               ELSE IF t.val.done THEN Ok(t.val.msg)
               ELSE listed(t.val.dir, OnlyFiles(F, Glob(F, t.val.dir, pattern)))
  IN  of(TargetDir(F, subdirectory))

ReadMultipleHandler(e) ==
  IF IsException(e.exc)
  THEN Returned(Msg(ClassOf(e), "Error: ", <<e.why>>, <<>>, 0))
  ELSE Escaped(e)

read_multiple_files_tool(F, subdirectory, pattern, rev) ==
  LET of(b) == IF b.exc = "" THEN Returned(b.val) ELSE ReadMultipleHandler(b)
  IN  of(ReadMultipleBody(F, subdirectory, pattern, rev))

(***************************************************************************)
(* search_file_content_tool                                                *)
(***************************************************************************)
\* the numbered lines that contain the term, compared without lower()
MatchingLinesCaseSensitive(search_term, lines) ==
  LET hit(i) == IsSubstring(search_term, lines[i])
      F1[i \in 0..Len(lines)] ==
        IF i = 0 THEN <<>>
        ELSE IF hit(i) THEN Append(F1[i - 1], [num |-> i, text |-> RStrip(lines[i])])
        ELSE F1[i - 1]
  IN  F1[Len(lines)]

\* lines 194-197: the numbered lines that contain the term, case ignored
MatchingLines(search_term, lines) ==
  LET hit(i) == IsSubstring(Lower(search_term), Lower(lines[i]))
      F1[i \in 0..Len(lines)] ==
        IF i = 0 THEN <<>>
        ELSE IF hit(i) THEN Append(F1[i - 1], [num |-> i, text |-> RStrip(lines[i])])
        ELSE F1[i - 1]
  IN  F1[Len(lines)]

\* lines 189-206 for one file: its entry, or nothing
SearchEntry(F, search_term, file) ==
  LET entry(matching_lines) ==
        IF matching_lines = <<>> THEN <<>>
        ELSE <<[path |-> file, name |-> Name(file), hits |-> matching_lines]>>
      of(rd) == IF rd.exc # "" THEN <<>>
                ELSE entry(MatchingLines(search_term, ReadLines(rd.val, 1, "")))
  IN  of(OpenRead(F, file))

RECURSIVE SearchEntries(_, _, _)
SearchEntries(F, search_term, q) ==
  IF q = <<>> THEN <<>>
  ELSE SearchEntry(F, search_term, Head(q)) \o SearchEntries(F, search_term, Tail(q))

SearchBody(F, search_term, pattern, rev) ==
  LET format(files, results) ==
        IF files = <<>>
        THEN Ok(Msg("Empty", "No files found matching pattern '", <<pattern>>, <<>>, 0))
        ELSE IF results = <<>>
        THEN Ok(Msg("Empty", "No matches found for '", <<search_term, pattern>>, <<>>, 0))
        ELSE Ok(Msg("Success", "Found '", <<search_term>>, results, Len(results)))
      loop(files) == format(files, SearchEntries(F, search_term, Sorted(files)))
      of(g) == IF g.exc # "" THEN g ELSE loop(ScanOrder(g.val, rev))
  IN  of(OnlyFiles(F, RGlob(F, ALLOWED_DIRECTORY, pattern)))

SearchHandler(e) ==
  IF IsException(e.exc)
  THEN Returned(Msg(ClassOf(e), "Error searching files: ", <<e.why>>, <<>>, 0))
  ELSE Escaped(e)

search_file_content_tool(F, search_term, pattern, rev) ==
  LET of(b) == IF b.exc = "" THEN Returned(b.val) ELSE SearchHandler(b)
  IN  of(SearchBody(F, search_term, pattern, rev))

(***************************************************************************)
(* The server: a file tree that no tool writes, and calls made one at a    *)
(* time in any order with any arguments.                                   *)
(*   fs    the file tree                                                   *)
(*   twin  a second tree that differs from fs outside ALLOWED_DIRECTORY    *)
(*         only; every call is also evaluated on it (res2)                 *)
(*   call  the last call, res its outcome                                  *)
(*   prev  the outcome of the call before it, when that was the same call  *)
(***************************************************************************)
ReadArgs ==
  {"a.t", "b.m", "k.t", "u", "nope", "x", "../o.t", "/s/o.t", "y/o.t", "/s/w/a.t",
   "u/../a.t", "p/q.t", "a\tb", "../g", "/s/o.t/a.t"}

Patterns == {"*", "*.t", "?.m", "*.zz", "../*", "*/*", "**/*", "y/*", "", "/x"}

SubDirs == {"u", "e", "nope", "a.t", "..", "y", "p", "n", "/s", "../o.t", "u/..", "a\tb"}

DirArgs ==
  {<<"", pt>> : pt \in Patterns} \cup {<<d, "*">> : d \in SubDirs} \cup {<<"u", "../*">>}

SearchArgs ==
  {<<"ab", pt>> : pt \in Patterns \cup {"a.t", "k*"}}
    \cup {<<t, "a.t">> : t \in {"AB", "b", "zz", ""}} \cup {<<"zz", "*">>}

NoCall == [a |-> "", b |-> "", op |-> "none"]
NoResult == [status |-> "none", msg |-> Msg("", "", <<>>, <<>>, 0)]

ReadCall(file_path) == [a |-> file_path, b |-> "", op |-> "read_file"]
ListCall(subdirectory, pattern) == [a |-> subdirectory, b |-> pattern, op |-> "list_files"]
ReadMultipleCall(subdirectory, pattern) ==
  [a |-> subdirectory, b |-> pattern, op |-> "read_multiple_files"]
SearchCall(search_term, pattern) == [a |-> search_term, b |-> pattern, op |-> "search_file_content"]

\* each tool tabulated over the trees and arguments of the model (@@ makes
\* TLC build the table once instead of running the tool at every step);
\* rev is the order in which the scans deliver the entries
ReadFileResults ==
  [x \in FileSystems \X ReadArgs |-> read_file_tool(x[1], x[2])] @@ <<>>

ListFilesResults ==
  [x \in FileSystems \X DirArgs \X BOOLEAN |->
     list_files_in_directory_tool(x[1], x[2][1], x[2][2], x[3])] @@ <<>>

ReadMultipleResults ==
  [x \in FileSystems \X DirArgs \X BOOLEAN |->
     read_multiple_files_tool(x[1], x[2][1], x[2][2], x[3])] @@ <<>>

SearchResults ==
  [x \in FileSystems \X SearchArgs \X BOOLEAN |->
     search_file_content_tool(x[1], x[2][1], x[2][2], x[3])] @@ <<>>

Init ==
  /\ fs \in FileSystems
  /\ twin \in {G \in FileSystems : G # fs /\ SameInside(fs, G)}
  /\ call = NoCall
  /\ res = NoResult
  /\ res2 = NoResult
  /\ prev = NoResult

\* Every call leaves the trees alone and produces its outcome on each.
ReadFile(file_path) ==
  /\ call' = ReadCall(file_path)
  /\ res' = ReadFileResults[<<fs, file_path>>]
  /\ res2' = ReadFileResults[<<twin, file_path>>]
  /\ prev' = IF call' = call THEN res ELSE NoResult
  /\ UNCHANGED <<fs, twin>>

ListFiles(subdirectory, pattern, rev) ==
  /\ call' = ListCall(subdirectory, pattern)
  /\ res' = ListFilesResults[<<fs, <<subdirectory, pattern>>, rev>>]
  /\ res2' = ListFilesResults[<<twin, <<subdirectory, pattern>>, rev>>]
  /\ prev' = IF call' = call THEN res ELSE NoResult
  /\ UNCHANGED <<fs, twin>>

ReadMultipleFiles(subdirectory, pattern, rev) ==
  /\ call' = ReadMultipleCall(subdirectory, pattern)
  /\ res' = ReadMultipleResults[<<fs, <<subdirectory, pattern>>, rev>>]
  /\ res2' = ReadMultipleResults[<<twin, <<subdirectory, pattern>>, rev>>]
  /\ prev' = IF call' = call THEN res ELSE NoResult
  /\ UNCHANGED <<fs, twin>>

SearchFileContent(search_term, pattern, rev) ==
  /\ call' = SearchCall(search_term, pattern)
  /\ res' = SearchResults[<<fs, <<search_term, pattern>>, rev>>]
  /\ res2' = SearchResults[<<twin, <<search_term, pattern>>, rev>>]
  /\ prev' = IF call' = call THEN res ELSE NoResult
  /\ UNCHANGED <<fs, twin>>

Next ==
  \/ \E file_path \in ReadArgs : ReadFile(file_path)
  \/ \E d \in DirArgs, rev \in BOOLEAN : ListFiles(d[1], d[2], rev)
  \/ \E d \in DirArgs, rev \in BOOLEAN : ReadMultipleFiles(d[1], d[2], rev)
  \/ \E q \in SearchArgs, rev \in BOOLEAN : SearchFileContent(q[1], q[2], rev)

Spec == Init /\ [][Next]_vars

(***************************************************************************)
(* Properties                                                              *)
(***************************************************************************)
LocationOps == {"read_file", "list_files", "read_multiple_files"}

\* the canonical path of the location a call names: the input joined to
\* ALLOWED_DIRECTORY, then ".", ".." and links resolved
Canonical(F, c) == Resolve(F, JoinAllowed(c.a))

InBounds(F, c) ==
  Canonical(F, c).exc = "" /\ IsRelativeTo(Canonical(F, c).val, ALLOWED_DIRECTORY)

OutOfBounds(F, c) ==
  Canonical(F, c).exc = "" /\ ~IsRelativeTo(Canonical(F, c).val, ALLOWED_DIRECTORY)

Items == res.msg.items

\* the link-free path of the file behind a path a tool used
RealPath(F, p) == Stat(F, p).real

\* C1: every file whose name, size or content a result shows has a
\* canonical path at or below ALLOWED_DIRECTORY, whatever the operation and
\* its arguments (glob patterns with ".." and links among the matches too).
C1_ShownFilesInsideRoot ==
  \A i \in 1..Len(Items) :
     /\ Stat(fs, Items[i].path).err = "OK"
     /\ IsRelativeTo(RealPath(fs, Items[i].path), ALLOWED_DIRECTORY)

\* the location has a ".." segment
HasDotDot(s) ==
  \E i \in 1..Len(ParseParts(s).parts) : ParseParts(s).parts[i] = ".."

\* C2 (as stated): for read_file, list_files and read_multiple_files the
\* result is the Denied message exactly when the canonical path of the
\* location is not at or below ALLOWED_DIRECTORY, and every location with a
\* ".." segment gets the Denied message and never content or a listing.
C2_EveryDotDotDenied ==
  call.op \in LocationOps =>
    /\ (res.msg.kind = "Denied") <=> OutOfBounds(fs, call)
    /\ HasDotDot(call.a) => res.msg.kind = "Denied" /\ Items = <<>>

\* C2 (amended): for read_file, list_files and read_multiple_files the
\* result is the Denied message exactly when the canonical path of the
\* location is not at or below ALLOWED_DIRECTORY; so a location whose ".."
\* segments, absolute path or links lead outside gets the Denied message
\* and shows no file, and one whose ".." segments stay inside is served.
C2_DeniedIffOutside ==
  call.op \in LocationOps =>
    /\ (res.msg.kind = "Denied") <=> OutOfBounds(fs, call)
    /\ OutOfBounds(fs, call) => res = Returned(DeniedMsg) /\ Items = <<>>
    /\ (HasDotDot(call.a) /\ InBounds(fs, call)) => res.msg.kind # "Denied"

\* a location that reaches outside through a link, through ".." or as an
\* absolute path has been denied
C2_Witness ==
  /\ call \in {ReadCall("x"), ReadCall("../o.t"), ReadCall("/s/o.t"), ListCall("y", "*")}
  /\ res.msg.kind = "Denied"

\* C3: every call of the four tools ends by returning a result; no
\* exception leaves the tool.
C3_Total ==
  call.op # "none" => res.status = "returned" /\ res2.status = "returned"

\* a call whose body raised (a NUL in the path, a pattern glob rejects, a
\* permission fault) has returned the handler's message
C3_Witness ==
  /\ res.status = "returned"
  /\ res.msg.kind \in {"InvalidPath", "Pattern", "Permission"}
  /\ res.msg.prefix \in {"Error reading file: ", "Error searching files: ", "Error: "}

\* the regular files list_files / read_multiple_files match, when the
\* pattern is one glob accepts and the scan meets no fault
Matched(F, c) == OnlyFiles(F, Glob(F, Canonical(F, c).val, c.b))

IsDirectory(F, p) == Stat(F, p).err = "OK" /\ F[RealPath(F, p)].type = "dir"

Missing(F, p) == Stat(F, p).err \in {"ENOENT", "ENOTDIR"}

NotADirectory(F, p) == Stat(F, p).err = "OK" /\ F[RealPath(F, p)].type # "dir"

\* C4: list_files on an in-bounds existing directory in which no regular
\* file matches the pattern returns the empty-match message; on an
\* in-bounds location that does not exist or is not a directory it returns
\* a NotFound message.  (Patterns glob accepts, scans without a fault.)
C4_EmptyVsNotFound ==
  (call.op = "list_files" /\ InBounds(fs, call)) =>
    LET dir == Canonical(fs, call).val
    IN  /\ (IsDirectory(fs, dir) /\ Matched(fs, call).exc = "" /\ Matched(fs, call).val = {})
             => res.msg.kind = "Empty" /\ Items = <<>>
        /\ (Missing(fs, dir) \/ NotADirectory(fs, dir))
             => res.msg.kind = "NotFound" /\ Items = <<>>

\* a pattern that matches nothing in the non-empty root has given the
\* empty-match message
C4_Witness ==
  /\ call = ListCall("", "*.zz")
  /\ res.msg.kind = "Empty"
  /\ res.msg.prefix = "No files found matching pattern '"

OccursIgnoringCase(term, line) ==
  \E k \in 0..Len(line) :
     /\ k + Len(term) <= Len(line)
     /\ \A j \in 1..Len(term) : LowerCh(Ch(term, j)) = LowerCh(Ch(line, k + j))

LinesOf(F, p) == ReadLines(OpenRead(F, p).val, 1, "")

HitLines(F, term, p) ==
  {i \in 1..Len(LinesOf(F, p)) : OccursIgnoringCase(term, LinesOf(F, p)[i])}

\* the files search_file_content scans
Scanned(F, c) == OnlyFiles(F, RGlob(F, ALLOWED_DIRECTORY, c.b))

C7_ListingInNameOrder ==
  (call.op = "list_files" /\ res.msg.kind = "Success") =>
    /\ {Items[i].path : i \in 1..Len(Items)} = Matched(fs, call).val
    /\ \A i \in 1..Len(Items) :
         /\ Items[i].name = Name(Items[i].path)
         /\ Items[i].size = Len(fs[RealPath(fs, Items[i].path)].data)
    /\ \A i, j \in 1..Len(Items) : i < j => ~StrLess(Items[j].name, Items[i].name)
    /\ res.msg.total = Len(Items)

\* the outcome classes whose messages are to be told apart
Classes == {"Denied", "NotFound", "Decode", "Permission", "Pattern", "Empty", "Success"}

\* C8: within one operation, results of different classes (denied,
\* not-found, decode failure, permission failure, malformed pattern,
\* empty-match, success) have message prefixes of which neither is the
\* beginning of the other.
C8_DistinctPrefixes ==
  [][(/\ call.op = call'.op
      /\ res.msg.kind \in Classes
      /\ res'.msg.kind \in Classes
      /\ res.msg.kind # res'.msg.kind)
       => /\ ~IsPrefixStr(res.msg.prefix, res'.msg.prefix)
          /\ ~IsPrefixStr(res'.msg.prefix, res.msg.prefix)]_vars

\* C9: the tools are read-only and keep no state: no call changes the file
\* tree, and a call repeated with the same arguments returns the same
\* result as the time before.
C9_ReadOnlyRepeatable ==
  [][/\ fs' = fs
     /\ twin' = twin
     /\ call' = call => res' = res]_vars

\* a listing or batch of several files made twice in a row
C9_Witness ==
  /\ prev.status = "returned"
  /\ call.op \in {"list_files", "read_multiple_files", "search_file_content"}
  /\ Len(Items) > 1

\* C10: a location whose canonical path is outside ALLOWED_DIRECTORY gets
\* the one Denied message whether or not the target exists and whatever it
\* is: on two trees that differ outside ALLOWED_DIRECTORY only, the results
\* of such a call are identical.
C10_DeniedBeforeExistence ==
  (call.op \in LocationOps /\ OutOfBounds(fs, call)) =>
    /\ res = Returned(DeniedMsg)
    /\ OutOfBounds(twin, call) => res2 = res

\* /s/o.t asked for where it exists on one tree and not on the other
C10_Witness ==
  /\ call \in {ReadCall("../o.t"), ListCall("../o.t", "*"), ReadMultipleCall("../o.t", "*")}
  /\ (<<"s", "o.t">> \in DOMAIN fs) # (<<"s", "o.t">> \in DOMAIN twin)
  /\ res = Returned(DeniedMsg)
  /\ res2 = res

====
